---- MODULE Spec2Model ----
(***************************************************************************)
(* BumpAllocator (src/src/allocators/bump_allocator.rs) as a state machine. *)
(*                                                                         *)
(* Addresses and sizes are usize values of AddrBits bits.  A MemoryAddress  *)
(* is a NonNull<u8>, so 0 is never an address: it is the bit pattern of    *)
(* None / Err / the null pointer that the code's transmutes test for.      *)
(***************************************************************************)
EXTENDS Integers, Naturals, Sequences, FiniteSets, TLC

(* ---------------------------------------------------------------------- *)
(* Bounds of the model                                                    *)
(* ---------------------------------------------------------------------- *)

\* width of usize in the model
AddrBits == 5

\* alignments are 2^0 .. 2^MaxAlignExp (MAXIMUM_POWER_OF_TWO_ALIGNMENT scaled)
MaxAlignExp == 1

\* the memory source hands out regions starting at MinStart
MinStart == 3

\* ... of 1 .. MaxRegionSize bytes
MaxRegionSize == 4

\* requested sizes are 1 .. MaxSize, and usize::MAX
MaxSize == 4

\* width of u32 in the model
U32Bits == 6

UsizeModulus == 2 ^ AddrBits

UsizeMax == UsizeModulus - 1

\* the null pointer, None and Err(AllocError) under the code's transmutes
Null == 0

MAXIMUM_POWER_OF_TWO_ALIGNMENT == 2 ^ MaxAlignExp

Alignments == { 2 ^ k : k \in 0 .. MaxAlignExp }

Sizes == (1 .. MaxSize) \cup { UsizeMax }

(* ---------------------------------------------------------------------- *)
(* MemoryAddress arithmetic (crate::memory_address, crate::extensions)    *)
(* ---------------------------------------------------------------------- *)

\* address.round_up_to_power_of_two(alignment)
round_up_to_power_of_two(address, alignment) ==
    ((address + (alignment - 1)) \div alignment) * alignment

\* address.checked_add(size): None (Null) when the sum leaves the usize range
checked_add(address, size) ==
    IF address + size > UsizeMax THEN Null ELSE address + size

\* address.add(size): unchecked pointer addition
add(address, size) == (address + size) % UsizeModulus

\* address.add_non_zero(size)
add_non_zero(address, size) == (address + size) % UsizeModulus

\* address.subtract_non_zero(size)
subtract_non_zero(address, size) == (address - size) % UsizeModulus

(* ---------------------------------------------------------------------- *)
(* State                                                                  *)
(* ---------------------------------------------------------------------- *)

VARIABLES
    phase,                              \* "unconstructed", "failed", "live", "dropped"
    most_recent_allocation_pointer,     \* Cell<MemoryAddress>
    next_allocation_at_pointer,         \* Cell<MemoryAddress>
    ends_at_pointer,                    \* MemoryAddress
    memory_source_size,                 \* NonZeroUsize
    obtained,                           \* memory source: the block obtain() gave, or Null
    released,                           \* memory source: the release() calls seen, in order
    memory,                             \* the region's bytes, by address
    live,                               \* caller: the blocks it holds, [address, size]
    run,                                \* caller: blocks of the allocates since the last other call
    last,                               \* the last call: arguments, outcome, state before it
    u32call                             \* the last NonZeroU32Ext call: arguments, outcome

fields == << most_recent_allocation_pointer, next_allocation_at_pointer,
             ends_at_pointer, memory_source_size >>

vars == << phase, most_recent_allocation_pointer, next_allocation_at_pointer,
           ends_at_pointer, memory_source_size, obtained, released, memory, live,
           run, last, u32call >>

allocator == << phase, most_recent_allocation_pointer, next_allocation_at_pointer,
                ends_at_pointer, memory_source_size, obtained, released, memory,
                live, run, last >>

\* no memory is mapped
NoMemory == << >>

\* MemoryRange::new(start, end)
Range(start, end) == [ start |-> start, end |-> end ]

NoCall ==
    [ op |-> "none", size |-> 0, alignment |-> 0, current_size |-> 0,
      current_memory |-> Null, result |-> "Ok", ret |-> Null,
      pre_most_recent |-> Null, pre_next |-> Null, pre_ends |-> Null,
      rewound |-> Null, shrunk_memory |-> Null, shrunk_size |-> 0,
      range |-> Range(Null, Null), pre_memory |-> NoMemory ]

NoU32Call ==
    [ op |-> "none", a |-> 0, b |-> 0, build |-> "none", panicked |-> FALSE,
      some |-> FALSE, value |-> 0 ]

\* no BumpAllocator has been constructed
Unconstructed ==
    /\ phase = "unconstructed"
    /\ most_recent_allocation_pointer = Null
    /\ next_allocation_at_pointer = Null
    /\ ends_at_pointer = Null
    /\ memory_source_size = 0
    /\ obtained = Null
    /\ released = << >>
    /\ memory = NoMemory
    /\ live = {}
    /\ run = << >>
    /\ last = NoCall

Init ==
    /\ Unconstructed
    /\ u32call = NoU32Call

(* ---------------------------------------------------------------------- *)
(* The operations, as functions of the fields and the arguments.          *)
(* Each gives the call's result ("Ok" / "Err"), the address returned      *)
(* (Null with Err) and the two Cell fields after the call.                *)
(* ---------------------------------------------------------------------- *)

Outcome(result, ret, most_recent, next) ==
    [ result |-> result, ret |-> ret, most_recent |-> most_recent, next |-> next ]

\* mutant: the region's end is taken for its start
allocations_start_from_NoSubtract(ends, source_size) ==
    ends

\* allocations_start_from(): ends_at_pointer.subtract_non_zero(memory_source_size)
allocations_start_from(ends, source_size) ==
    subtract_non_zero(ends, source_size)

\* mutant: the range starts where it ends
memory_range_StartAtEnd(ends, source_size) ==
    Range(ends, ends)

\* memory_range(): it reads ends_at_pointer and memory_source_size only
memory_range(ends, source_size) ==
    Range(allocations_start_from(ends, source_size), ends)

\* mutant: the comparison with ends_at_pointer is left out
allocation_ends_at_pointer_NoBoundCheck(ends, non_zero_size, allocation_from) ==
    checked_add(allocation_from, non_zero_size)

\* mutant: an allocation that ends exactly at ends_at_pointer is refused
allocation_ends_at_pointer_OffByOne(ends, non_zero_size, allocation_from) ==
    LET pointer == checked_add(allocation_from, non_zero_size)
    IN  IF pointer = Null THEN Null
        ELSE IF pointer >= ends THEN Null
        ELSE pointer

\* allocation_ends_at_pointer!: the end of the allocation, or Null where the
\* macro makes the enclosing function return Err(AllocError)
allocation_ends_at_pointer(ends, non_zero_size, allocation_from) ==
    LET pointer == checked_add(allocation_from, non_zero_size)
    IN  IF pointer = Null THEN Null
        ELSE IF pointer > ends THEN Null
        ELSE pointer

\* mutant: the cursor, too, is set to the rounded-up address before the check
allocate_CursorSetBeforeCheck(most_recent, next, ends, non_zero_size, alignment) ==
    LET rounded == round_up_to_power_of_two(next, alignment)
        end == checked_add(rounded, non_zero_size)
    IN  IF end = Null \/ end > ends
        THEN Outcome("Err", Null, rounded, rounded)
        ELSE Outcome("Ok", rounded, rounded, end)

\* mutant: the cursor is not rounded up to the alignment
allocate_NoRoundUp(most_recent, next, ends, non_zero_size, alignment) ==
    LET end == checked_add(next, non_zero_size)
    IN  IF end = Null \/ end > ends
        THEN Outcome("Err", Null, next, next)
        ELSE Outcome("Ok", next, next, end)

\* allocate: most_recent_allocation_pointer is set before the macro can return
allocate(most_recent, next, ends, non_zero_size, alignment) ==
    LET next_allocation_at_rounded_up_pointer ==
            round_up_to_power_of_two(next, alignment)
        end == allocation_ends_at_pointer(ends, non_zero_size,
                                          next_allocation_at_rounded_up_pointer)
    IN  IF end = Null
        THEN Outcome("Err", Null, next_allocation_at_rounded_up_pointer, next)
        ELSE Outcome("Ok", next_allocation_at_rounded_up_pointer,
                     next_allocation_at_rounded_up_pointer, end)

\* mutant: the most recent allocation is not given back either
deallocate_NeverRewinds(most_recent, next, current_memory) ==
    Outcome("Ok", Null, most_recent, next)

\* mutant: the cursor is rewound to whatever address is freed
deallocate_AlwaysRewinds(most_recent, next, current_memory) ==
    Outcome("Ok", Null, most_recent, current_memory)

\* deallocate: returns nothing; ret is Null
deallocate(most_recent, next, current_memory) ==
    IF current_memory = most_recent
    THEN Outcome("Ok", Null, most_recent, most_recent)
    ELSE Outcome("Ok", Null, most_recent, next)

\* mutant: a block that is not the most recent one is refused
shrinking_reallocate_FailsOffTail(most_recent, next, non_zero_new_size, current_memory) ==
    IF current_memory = most_recent
    THEN Outcome("Ok", current_memory, most_recent,
                 add(current_memory, non_zero_new_size))
    ELSE Outcome("Err", Null, most_recent, next)

\* mutant: the tail of the most recent block is not given back
shrinking_reallocate_CursorKept(most_recent, next, non_zero_new_size, current_memory) ==
    Outcome("Ok", current_memory, most_recent, next)

\* mutant: the cursor is moved to the end of whatever block is shrunk
shrinking_reallocate_AlwaysMovesCursor(most_recent, next, non_zero_new_size, current_memory) ==
    Outcome("Ok", current_memory, most_recent,
            add(current_memory, non_zero_new_size))

shrinking_reallocate(most_recent, next, non_zero_new_size, current_memory) ==
    IF current_memory = most_recent
    THEN Outcome("Ok", current_memory, most_recent,
                 add(current_memory, non_zero_new_size))
    ELSE Outcome("Ok", current_memory, most_recent, next)

\* mutant: every grow is a fresh allocate, the most recent block's too
growing_reallocate_AlwaysMoves(most_recent, next, ends, non_zero_new_size, alignment, current_memory) ==
    LET result == allocate(most_recent, next, ends, non_zero_new_size, alignment)
    IN  IF result.ret = Null
        THEN Outcome("Err", Null, result.most_recent, result.next)
        ELSE Outcome("Ok", result.ret, result.most_recent, result.next)

\* mutant: an in-place grow returns the address without moving the cursor
growing_reallocate_CursorNotExtended(most_recent, next, ends, non_zero_new_size, alignment, current_memory) ==
    IF current_memory = most_recent
    THEN LET end == allocation_ends_at_pointer(ends, non_zero_new_size,
                                               current_memory)
         IN  IF end = Null
             THEN Outcome("Err", Null, most_recent, next)
             ELSE Outcome("Ok", current_memory, most_recent, next)
    ELSE LET result == allocate(most_recent, next, ends, non_zero_new_size,
                                alignment)
         IN  IF result.ret = Null
             THEN Outcome("Err", Null, result.most_recent, result.next)
             ELSE Outcome("Ok", result.ret, result.most_recent, result.next)

growing_reallocate(most_recent, next, ends, non_zero_new_size, alignment, current_memory) ==
    IF current_memory = most_recent
    THEN LET end == allocation_ends_at_pointer(ends, non_zero_new_size,
                                               current_memory)
         IN  IF end = Null
             THEN Outcome("Err", Null, most_recent, next)
             ELSE Outcome("Ok", current_memory, most_recent, end)
    ELSE LET result == allocate(most_recent, next, ends, non_zero_new_size,
                                alignment)
         IN  IF result.ret = Null
             THEN Outcome("Err", Null, result.most_recent, result.next)
             ELSE Outcome("Ok", result.ret, result.most_recent, result.next)

\* pointer.copy_from(source, count): count bytes from source to pointer
copy_from(mem, pointer, source, count) ==
    [ a \in DOMAIN mem |->
        IF a >= pointer /\ a < pointer + count
        THEN mem[source + (a - pointer)]
        ELSE mem[a] ]

\* mutant: the block is moved without its bytes
growing_reallocate_copy_NoCopy(mem, most_recent, pointer, current_size, current_memory) ==
    mem

\* growing_reallocate, the bytes: pointer is what its allocate returned
growing_reallocate_copy(mem, most_recent, pointer, current_size, current_memory) ==
    IF current_memory = most_recent
    THEN mem
    ELSE IF pointer = Null
         THEN mem
         ELSE copy_from(mem, pointer, current_memory, current_size)

(* ---------------------------------------------------------------------- *)
(* Actions: one per call.  The caller passes deallocate and the two       *)
(* reallocates only blocks it holds, with the size it holds them at.      *)
(* ---------------------------------------------------------------------- *)

Block(address, size) == [ address |-> address, size |-> size ]

\* the address a deallocate just rewound the cursor to, for the call after it
Rewound ==
    IF last.op = "deallocate" /\ last.current_memory = last.pre_most_recent
    THEN last.current_memory
    ELSE Null

\* the block, at its size before, that a shrinking_reallocate just shrank while
\* it was the most recent one and the cursor was at its end, for the call after it
ShrunkTail ==
    IF /\ last.op = "shrinking_reallocate"
       /\ last.current_memory = last.pre_most_recent
       /\ last.pre_next = last.current_memory + last.current_size
    THEN Block(last.current_memory, last.current_size)
    ELSE Block(Null, 0)

Call(op, size, alignment, current_size, current_memory, out) ==
    [ op |-> op, size |-> size, alignment |-> alignment,
      current_size |-> current_size, current_memory |-> current_memory,
      result |-> out.result, ret |-> out.ret,
      pre_most_recent |-> most_recent_allocation_pointer,
      pre_next |-> next_allocation_at_pointer,
      pre_ends |-> ends_at_pointer,
      rewound |-> Rewound,
      shrunk_memory |-> ShrunkTail.address, shrunk_size |-> ShrunkTail.size,
      range |-> Range(Null, Null), pre_memory |-> memory ]

\* the memory source's obtain() fails: new() returns Err and no instance exists
NewFails ==
    /\ phase = "unconstructed"
    /\ phase' = "failed"
    /\ UNCHANGED << u32call, fields, obtained, released, memory, live, run, last >>

\* The bytes of the obtained block are whatever the memory source left there:
\* zero-filled pages, or bytes that each hold a value of their own, so that a
\* copy from the wrong place or of the wrong length shows.
ZeroFilled == [ address \in 0 .. UsizeMax |-> 0 ]

DistinctBytes == [ address \in 0 .. UsizeMax |-> address ]

\* The memory source never maps the last MAXIMUM_POWER_OF_TWO_ALIGNMENT bytes
\* of the address space, so rounding an address of the region up stays in range
New(start, size, bytes) ==
    /\ phase = "unconstructed"
    /\ start + size <= UsizeModulus - MAXIMUM_POWER_OF_TWO_ALIGNMENT
    /\ phase' = "live"
    /\ obtained' = Block(start, size)
    /\ most_recent_allocation_pointer' = start
    /\ next_allocation_at_pointer' = start
    /\ ends_at_pointer' = add_non_zero(start, size)
    /\ memory_source_size' = size
    /\ memory' = [ a \in start .. start + size - 1 |-> bytes[a] ]
    /\ UNCHANGED << u32call, released, live, run, last >>

\* the blocks handed out die with the instance
Drop ==
    /\ phase = "live"
    /\ phase' = "dropped"
    /\ released' = Append(released,
                          Block(allocations_start_from(ends_at_pointer,
                                                       memory_source_size),
                                memory_source_size))
    /\ memory' = NoMemory
    /\ live' = {}
    /\ run' = << >>
    /\ last' = NoCall
    /\ UNCHANGED << u32call, fields, obtained >>

\* a read: no field is written
MemoryRange ==
    /\ phase = "live"
    /\ last' = [ Call("memory_range", 0, 0, 0, Null,
                      Outcome("Ok", Null, most_recent_allocation_pointer,
                              next_allocation_at_pointer))
                 EXCEPT !.range = memory_range(ends_at_pointer, memory_source_size) ]
    /\ UNCHANGED << u32call, phase, fields, obtained, released, memory, live, run >>

Allocate(size, alignment) ==
    /\ phase = "live"
    /\ LET out == allocate(most_recent_allocation_pointer,
                           next_allocation_at_pointer, ends_at_pointer,
                           size, alignment)
       IN  /\ most_recent_allocation_pointer' = out.most_recent
           /\ next_allocation_at_pointer' = out.next
           /\ last' = Call("allocate", size, alignment, 0, Null, out)
           /\ IF out.result = "Ok"
              THEN /\ live' = live \cup { Block(out.ret, size) }
                   /\ run' = Append(run, Block(out.ret, size))
              ELSE UNCHANGED << live, run >>
    /\ UNCHANGED << u32call, phase, ends_at_pointer, memory_source_size, obtained, released,
                    memory >>

\* size and alignment are unused by deallocate
Deallocate(block) ==
    /\ phase = "live"
    /\ block \in live
    /\ LET out == deallocate(most_recent_allocation_pointer,
                             next_allocation_at_pointer, block.address)
       IN  /\ most_recent_allocation_pointer' = out.most_recent
           /\ next_allocation_at_pointer' = out.next
           /\ last' = Call("deallocate", block.size, 0, 0, block.address, out)
    /\ live' = live \ { block }
    /\ run' = << >>
    /\ UNCHANGED << u32call, phase, ends_at_pointer, memory_source_size, obtained, released,
                    memory >>

\* alignment and current size are unused by shrinking_reallocate
ShrinkingReallocate(block, new_size) ==
    /\ phase = "live"
    /\ block \in live
    /\ new_size <= block.size
    /\ LET out == shrinking_reallocate(most_recent_allocation_pointer,
                                       next_allocation_at_pointer,
                                       new_size, block.address)
       IN  /\ most_recent_allocation_pointer' = out.most_recent
           /\ next_allocation_at_pointer' = out.next
           /\ last' = Call("shrinking_reallocate", new_size, 0, block.size,
                           block.address, out)
           /\ live' = (live \ { block }) \cup { Block(out.ret, new_size) }
    /\ run' = << >>
    /\ UNCHANGED << u32call, phase, ends_at_pointer, memory_source_size, obtained, released,
                    memory >>

GrowingReallocate(block, new_size, alignment) ==
    /\ phase = "live"
    /\ block \in live
    /\ new_size >= block.size
    /\ LET out == growing_reallocate(most_recent_allocation_pointer,
                                     next_allocation_at_pointer, ends_at_pointer,
                                     new_size, alignment, block.address)
       IN  /\ most_recent_allocation_pointer' = out.most_recent
           /\ next_allocation_at_pointer' = out.next
           /\ last' = Call("growing_reallocate", new_size, alignment, block.size,
                           block.address, out)
           /\ memory' = growing_reallocate_copy(memory,
                                                most_recent_allocation_pointer,
                                                out.ret, block.size, block.address)
           /\ live' = IF out.result = "Ok"
                      THEN (live \ { block }) \cup { Block(out.ret, new_size) }
                      ELSE live
    /\ run' = << >>
    /\ UNCHANGED << u32call, phase, ends_at_pointer, memory_source_size, obtained, released >>

Next ==
    \/ NewFails
    \/ \E size \in 1 .. MaxRegionSize : New(MinStart, size, ZeroFilled)
    \/ Drop
    \/ MemoryRange
    \/ \E size \in Sizes, alignment \in Alignments : Allocate(size, alignment)
    \/ \E block \in live : Deallocate(block)
    \/ \E block \in live, new_size \in 1 .. MaxSize :
          ShrinkingReallocate(block, new_size)
    \/ \E block \in live, new_size \in Sizes, alignment \in Alignments :
          GrowingReallocate(block, new_size, alignment)

Spec == Init /\ [][Next]_vars

\* the same calls over a region whose bytes all differ
NextBytes ==
    \/ NewFails
    \/ \E size \in 1 .. MaxRegionSize : New(MinStart, size, DistinctBytes)
    \/ Drop
    \/ MemoryRange
    \/ \E size \in Sizes, alignment \in Alignments : Allocate(size, alignment)
    \/ \E block \in live : Deallocate(block)
    \/ \E block \in live, new_size \in 1 .. MaxSize :
          ShrinkingReallocate(block, new_size)
    \/ \E block \in live, new_size \in Sizes, alignment \in Alignments :
          GrowingReallocate(block, new_size, alignment)

SpecBytes == Init /\ [][NextBytes]_vars

(* ---------------------------------------------------------------------- *)
(* NonZeroU32Ext (src/src/extensions/non_zero_u32_ext.rs)                  *)
(* ---------------------------------------------------------------------- *)

U32Modulus == 2 ^ U32Bits

U32Max == U32Modulus - 1

NonZeroU32 == 1 .. U32Max

BuildModes == { "debug", "release" }

\* Option<u32> and Option<NonZeroU32>
None == [ some |-> FALSE, value |-> 0 ]

Some(value) == [ some |-> TRUE, value |-> value ]

\* the number of bits of value: 32 - value.leading_zeros()
RECURSIVE BitLength(_)
BitLength(value) ==
    IF value = 0 THEN 0 ELSE 1 + BitLength(value \div 2)

\* u32::checked_add
u32_checked_add(x, y) ==
    IF x + y > U32Max THEN None ELSE Some(x + y)

\* u32::next_power_of_two, before its last addition is narrowed to u32:
\* one_less_than_next_power_of_two() + 1
u32_next_power_of_two(x) ==
    LET one_less == IF x <= 1 THEN 0 ELSE 2 ^ BitLength(x - 1) - 1
    IN  one_less + 1

\* Self::non_zero_unchecked: NonZeroU32::new_unchecked(value)
non_zero_unchecked(value) == value

\* NonZeroU32Ext::to_u32
to_u32(non_zero) == non_zero

\* mutant: the sum wraps, as add_assign's does
NonZeroU32Ext_checked_add_Wrapping(self, increment) ==
    Some(non_zero_unchecked((to_u32(self) + to_u32(increment)) % U32Modulus))

\* NonZeroU32Ext::checked_add
NonZeroU32Ext_checked_add(self, increment) ==
    LET sum == u32_checked_add(to_u32(self), to_u32(increment))
    IN  IF sum.some THEN Some(non_zero_unchecked(sum.value)) ELSE None

\* mutant: the bits of the value are counted, not those of the value less one
NonZeroU32Ext_next_power_of_two_OfValue(self, build) ==
    LET power == 2 ^ BitLength(to_u32(self))
    IN  IF power <= U32Max
        THEN { [ panicked |-> FALSE, value |-> non_zero_unchecked(power) ] }
        ELSE { [ panicked |-> TRUE, value |-> 0 ] }

\* NonZeroU32Ext::next_power_of_two, the outcomes the build can give: when the
\* power of two does not fit u32 a debug build panics on the overflow, and a
\* release build wraps to 0 and hands it to new_unchecked, which is undefined
NonZeroU32Ext_next_power_of_two(self, build) ==
    LET power == u32_next_power_of_two(to_u32(self))
    IN  IF power <= U32Max
        THEN { [ panicked |-> FALSE, value |-> non_zero_unchecked(power) ] }
        ELSE IF build = "debug"
             THEN { [ panicked |-> TRUE, value |-> 0 ] }
             ELSE { [ panicked |-> FALSE, value |-> v ] : v \in 0 .. U32Max }

\* the arguments of the one call made: any two NonZeroU32, in either build
InitU32 ==
    /\ Unconstructed
    /\ \E a \in NonZeroU32, b \in NonZeroU32, build \in BuildModes :
          u32call = [ NoU32Call EXCEPT !.a = a, !.b = b, !.build = build ]

CheckedAdd(a, b) ==
    /\ u32call.op = "none"
    /\ LET out == NonZeroU32Ext_checked_add(a, b)
       IN  u32call' = [ op |-> "checked_add", a |-> a, b |-> b, build |-> "none",
                        panicked |-> FALSE, some |-> out.some,
                        value |-> out.value ]
    /\ UNCHANGED allocator

NextPowerOfTwo(a, build) ==
    /\ u32call.op = "none"
    /\ \E out \in NonZeroU32Ext_next_power_of_two(a, build) :
          u32call' = [ op |-> "next_power_of_two", a |-> a, b |-> 0,
                       build |-> build, panicked |-> out.panicked,
                       some |-> FALSE, value |-> out.value ]
    /\ UNCHANGED allocator

NextU32 ==
    \/ CheckedAdd(u32call.a, u32call.b)
    \/ NextPowerOfTwo(u32call.a, u32call.build)

SpecU32 == InitU32 /\ [][NextU32]_vars

(* ---------------------------------------------------------------------- *)
(* Properties                                                             *)
(* ---------------------------------------------------------------------- *)

\* start(region): the address the memory source's obtain() returned
RegionStart == obtained.address

Failed(op) == phase = "live" /\ last.op = op /\ last.result = "Err"

Succeeded(op) == phase = "live" /\ last.op = op /\ last.result = "Ok"

FieldsAsBeforeCall ==
    /\ most_recent_allocation_pointer = last.pre_most_recent
    /\ next_allocation_at_pointer = last.pre_next
    /\ ends_at_pointer = last.pre_ends

\* C1: a failed allocate leaves most_recent_allocation_pointer,
\* next_allocation_at_pointer and ends_at_pointer exactly as they were before
\* the call.
C1_FailedAllocateChangesNothing ==
    Failed("allocate") => FieldsAsBeforeCall

\* C2: invariant 2, after every operation of a caller that passes only blocks
\* it holds: start(region) <= most_recent_allocation_pointer
\* <= next_allocation_at_pointer.
C2_Invariant2 ==
    phase = "live" =>
        /\ RegionStart <= most_recent_allocation_pointer
        /\ most_recent_allocation_pointer <= next_allocation_at_pointer

\* C3: invariant 1, after every operation of a caller that passes only blocks
\* it holds (and shrinks only to a smaller or equal size): start(region)
\* <= next_allocation_at_pointer <= ends_at_pointer.
C3_Invariant1 ==
    phase = "live" =>
        /\ RegionStart <= next_allocation_at_pointer
        /\ next_allocation_at_pointer <= ends_at_pointer

\* a failed allocate, then calls that moved the cursor up to the region's end
C3_Witness ==
    /\ phase = "live"
    /\ next_allocation_at_pointer = ends_at_pointer
    /\ most_recent_allocation_pointer > RegionStart
    /\ last.op = "growing_reallocate"
    /\ last.result = "Ok"
    /\ last.pre_most_recent > last.pre_next

\* C4: an allocate whose rounded-up start plus size lies past ends_at_pointer
\* fails and leaves next_allocation_at_pointer unchanged.
C4_AllocatePastEndFails ==
    ( /\ phase = "live"
      /\ last.op = "allocate"
      /\ round_up_to_power_of_two(last.pre_next, last.alignment) + last.size
            > last.pre_ends )
    => /\ last.result = "Err"
       /\ next_allocation_at_pointer = last.pre_next

\* the spec's scenario, scaled: a region of 4 bytes, allocate(3, 1) at the
\* start, then allocate(3, 1) fails (3 + 3 > 4) with the cursor at start + 3
C4_Witness ==
    /\ Failed("allocate")
    /\ memory_source_size = 4
    /\ last.size = 3
    /\ last.alignment = 1
    /\ live = { Block(RegionStart, 3) }
    /\ next_allocation_at_pointer = RegionStart + 3

Disjoint(a, b) ==
    \/ a.address + a.size <= b.address
    \/ b.address + b.size <= a.address

\* C5: the blocks returned by successive successful allocates do not overlap,
\* their addresses do not decrease in issuance order, and each address is a
\* multiple of the alignment asked for.
C5_AllocateRun ==
    /\ \A i, j \in 1 .. Len(run) :
          i < j => /\ Disjoint(run[i], run[j])
                   /\ run[i].address <= run[j].address
    /\ Succeeded("allocate") => last.ret % last.alignment = 0

\* three allocates in a row, the last one after alignment padding
C5_Witness ==
    /\ Succeeded("allocate")
    /\ Len(run) = 3
    /\ last.alignment > 1
    /\ run[3].address = last.ret
    /\ run[3].address > run[2].address + run[2].size

\* C6: a growing_reallocate of a block that is not the most recent one, whose
\* fresh allocate fails, returns the error and leaves
\* most_recent_allocation_pointer and next_allocation_at_pointer as they were.
C6_FailedMovingGrowChangesNothing ==
    ( /\ Failed("growing_reallocate")
      /\ last.current_memory # last.pre_most_recent )
    => FieldsAsBeforeCall

\* C7: obtain and release are paired: nothing is released before the drop or
\* when new() failed, and the drop releases the obtained block, size and start
\* address, exactly once.
C7_ObtainReleasePaired ==
    /\ phase \in { "unconstructed", "live" } => released = << >>
    /\ phase = "failed" => obtained = Null /\ released = << >>
    /\ phase = "dropped" => released = << obtained >>

\* dropped after calls that moved the cursor off the region's start
C7_Witness ==
    /\ phase = "dropped"
    /\ Len(released) = 1
    /\ next_allocation_at_pointer > RegionStart
    /\ most_recent_allocation_pointer > RegionStart

\* C8: shrinking_reallocate never fails and returns the address it was given,
\* for the most recent block and for any other, in every state and for every
\* size and address.
C8_ShrinkNeverFailsNeverMoves ==
    /\ phase = "live" /\ last.op = "shrinking_reallocate" =>
          last.result = "Ok" /\ last.ret = last.current_memory
    /\ phase = "live" =>
          \A new_size \in Sizes, address \in 1 .. UsizeMax :
             LET out == shrinking_reallocate(most_recent_allocation_pointer,
                                             next_allocation_at_pointer,
                                             new_size, address)
             IN  out.result = "Ok" /\ out.ret = address

\* a block that is not the most recent one was shrunk to a smaller size
C8_Witness ==
    /\ Succeeded("shrinking_reallocate")
    /\ last.current_memory # last.pre_most_recent
    /\ last.size < last.current_size
    /\ Block(last.current_memory, last.size) \in live

\* C9: deallocate of the most recent allocation sets next_allocation_at_pointer
\* to its address and leaves most_recent_allocation_pointer alone; an allocate
\* right after it that fits, with an alignment dividing that address, returns
\* the same address again.
C9_TailFreeThenReuse ==
    /\ ( /\ phase = "live"
         /\ last.op = "deallocate"
         /\ last.current_memory = last.pre_most_recent )
       => /\ next_allocation_at_pointer = last.current_memory
          /\ most_recent_allocation_pointer = last.pre_most_recent
    /\ ( /\ phase = "live"
         /\ last.op = "allocate"
         /\ last.rewound # Null
         /\ last.rewound % last.alignment = 0
         /\ last.rewound + last.size <= ends_at_pointer )
       => /\ last.result = "Ok"
          /\ last.ret = last.rewound

\* the spec's scenario, scaled: a first block is held, the second was freed
\* and a larger allocate got the second one's address again
C9_Witness ==
    /\ Succeeded("allocate")
    /\ last.rewound # Null
    /\ last.ret = last.rewound
    /\ last.alignment > 1
    /\ last.size > 1
    /\ \E first \in live : first.address = RegionStart /\ first.address < last.ret

\* C10: deallocate of an address that is not most_recent_allocation_pointer
\* changes none of next_allocation_at_pointer, most_recent_allocation_pointer
\* and ends_at_pointer.
C10_OtherFreeIsNoOp ==
    ( /\ phase = "live"
      /\ last.op = "deallocate"
      /\ last.current_memory # last.pre_most_recent )
    => FieldsAsBeforeCall

\* an earlier block was freed while a later one is held: the cursor stays
\* past the freed block
C10_Witness ==
    /\ phase = "live"
    /\ last.op = "deallocate"
    /\ last.current_memory < last.pre_most_recent
    /\ next_allocation_at_pointer > last.current_memory + last.size
    /\ live # {}

\* C11: when the most recent block, with the cursor at its end, is shrunk and
\* then at once grown back to its old size, both calls succeed and return its
\* address, the cursor is back at its value before the shrink and the block is
\* still the most recent one.
C11_ShrinkGrowRoundTrip ==
    /\ ( /\ phase = "live"
         /\ last.op = "shrinking_reallocate"
         /\ last.current_memory = last.pre_most_recent
         /\ last.pre_next = last.current_memory + last.current_size )
       => /\ last.result = "Ok"
          /\ last.ret = last.current_memory
    /\ ( /\ phase = "live"
         /\ last.op = "growing_reallocate"
         /\ last.shrunk_memory # Null
         /\ last.current_memory = last.shrunk_memory
         /\ last.size = last.shrunk_size )
       => /\ last.result = "Ok"
          /\ last.ret = last.shrunk_memory
          /\ next_allocation_at_pointer = last.shrunk_memory + last.shrunk_size
          /\ most_recent_allocation_pointer = last.shrunk_memory

\* a block that is not the region's first was shrunk to less and grown back
C11_Witness ==
    /\ Succeeded("growing_reallocate")
    /\ last.shrunk_memory = last.current_memory
    /\ last.shrunk_memory > RegionStart
    /\ last.size = last.shrunk_size
    /\ last.current_size < last.size
    /\ next_allocation_at_pointer > last.pre_next

\* C12: memory_range() changes nothing and, after any calls, returns
\* [S, S + N) for the start S obtained at construction and the size N asked
\* for; ends_at_pointer keeps the value construction gave it.
C12_MemoryRangeFixed ==
    phase = "live" =>
        /\ ends_at_pointer = obtained.address + obtained.size
        /\ memory_range(ends_at_pointer, memory_source_size)
              = Range(obtained.address, obtained.address + obtained.size)
        /\ last.op = "memory_range" =>
              /\ last.range = Range(obtained.address,
                                    obtained.address + obtained.size)
              /\ FieldsAsBeforeCall

\* the range was read after a failed call and with the cursor off the start
C12_Witness ==
    /\ phase = "live"
    /\ last.op = "memory_range"
    /\ live # {}
    /\ next_allocation_at_pointer > RegionStart
    /\ most_recent_allocation_pointer > next_allocation_at_pointer

\* C13: allocate(size, alignment) follows the reference algorithm: with
\* rounded the cursor rounded up to the alignment and end = rounded + size, it
\* succeeds exactly when end is within the address range and end <=
\* ends_at_pointer, and then returns rounded, with
\* most_recent_allocation_pointer = rounded and next_allocation_at_pointer = end.
C13_AllocateReference ==
    ( phase = "live" /\ last.op = "allocate" ) =>
        LET above == last.pre_next + (last.alignment - 1)
            rounded == above - (above % last.alignment)
            end == rounded + last.size
        IN  /\ last.result = "Ok" <=> ( end <= UsizeMax /\ end <= last.pre_ends )
            /\ last.result = "Ok" =>
                  /\ last.ret = rounded
                  /\ most_recent_allocation_pointer = rounded
                  /\ next_allocation_at_pointer = end

\* an allocate after alignment padding that ends exactly at ends_at_pointer
C13_Witness ==
    /\ Succeeded("allocate")
    /\ last.ret > last.pre_next
    /\ last.pre_next > RegionStart
    /\ next_allocation_at_pointer = ends_at_pointer

\* C14: growing_reallocate of the address in most_recent_allocation_pointer
\* grows in place: if address + new_size is within the address range and <=
\* ends_at_pointer it returns the address, sets next_allocation_at_pointer to
\* address + new_size and leaves most_recent_allocation_pointer; otherwise it
\* fails and leaves both pointers.
C14_GrowInPlace ==
    ( /\ phase = "live"
      /\ last.op = "growing_reallocate"
      /\ last.current_memory = last.pre_most_recent )
    => LET end == last.current_memory + last.size
       IN  IF end <= UsizeMax /\ end <= last.pre_ends
           THEN /\ last.result = "Ok"
                /\ last.ret = last.current_memory
                /\ next_allocation_at_pointer = end
                /\ most_recent_allocation_pointer = last.pre_most_recent
           ELSE /\ last.result = "Err"
                /\ most_recent_allocation_pointer = last.pre_most_recent
                /\ next_allocation_at_pointer = last.pre_next

\* the most recent block, not the region's first, could not grow: the region
\* is too small for the size asked
C14_Witness ==
    /\ Failed("growing_reallocate")
    /\ last.current_memory = last.pre_most_recent
    /\ last.current_memory > RegionStart
    /\ last.size <= MaxSize
    /\ last.size > last.current_size

\* C15: a successful growing_reallocate of a held block that is not the most
\* recent one returns the address a fresh allocate(new_size, alignment) returns,
\* which differs from the old address and is at or past the old cursor, makes
\* it the most recent allocation, and leaves the first old_size bytes at the
\* new address equal to the old_size bytes the old address had, which are
\* still there.
C15_MovingGrowCopies ==
    ( /\ Succeeded("growing_reallocate")
      /\ last.current_memory # last.pre_most_recent )
    => LET above == last.pre_next + (last.alignment - 1)
           rounded == above - (above % last.alignment)
       IN  /\ last.ret = rounded
           /\ last.ret = allocate(last.pre_most_recent, last.pre_next,
                                  last.pre_ends, last.size, last.alignment).ret
           /\ last.ret # last.current_memory
           /\ last.ret >= last.pre_next
           /\ most_recent_allocation_pointer = last.ret
           /\ \A i \in 0 .. last.current_size - 1 :
                 /\ memory[last.ret + i] = last.pre_memory[last.current_memory + i]
                 /\ memory[last.current_memory + i]
                       = last.pre_memory[last.current_memory + i]

\* a block of two bytes or more was moved
C15_Witness ==
    /\ Succeeded("growing_reallocate")
    /\ last.current_memory # last.pre_most_recent
    /\ last.ret # last.current_memory
    /\ last.current_size >= 2
    /\ memory # last.pre_memory

\* C16: shrinking_reallocate of the address in most_recent_allocation_pointer
\* sets next_allocation_at_pointer to address + new_size, which is not past
\* its old value when new_size <= old_size and the cursor was at address +
\* old_size, and leaves most_recent_allocation_pointer; for any other address
\* it changes no state.
C16_ShrinkEffect ==
    ( phase = "live" /\ last.op = "shrinking_reallocate" ) =>
        IF last.current_memory = last.pre_most_recent
        THEN /\ next_allocation_at_pointer = last.current_memory + last.size
             /\ most_recent_allocation_pointer = last.pre_most_recent
             /\ ends_at_pointer = last.pre_ends
             /\ ( /\ last.size <= last.current_size
                  /\ last.pre_next = last.current_memory + last.current_size )
                => next_allocation_at_pointer <= last.pre_next
        ELSE FieldsAsBeforeCall

\* the most recent block, not the region's first, gave back its tail
C16_Witness ==
    /\ Succeeded("shrinking_reallocate")
    /\ last.current_memory = last.pre_most_recent
    /\ last.current_memory > RegionStart
    /\ last.pre_next = last.current_memory + last.current_size
    /\ next_allocation_at_pointer < last.pre_next

\* C17: a failed allocate does not show on the last block allocated: if a held
\* block was the most recent allocation before an allocate that failed, then
\* after it deallocate of the block still rewinds the cursor to its address,
\* shrinking_reallocate still moves the cursor to address + new_size, and
\* growing_reallocate, where the region has room, still grows it in place and
\* returns its address.
C17_FailedAllocateUnseen ==
    Failed("allocate") =>
        \A block \in live :
            block.address = last.pre_most_recent =>
                /\ deallocate(most_recent_allocation_pointer,
                              next_allocation_at_pointer,
                              block.address).next = block.address
                /\ \A new_size \in 1 .. block.size :
                      shrinking_reallocate(most_recent_allocation_pointer,
                                           next_allocation_at_pointer,
                                           new_size, block.address).next
                         = block.address + new_size
                /\ \A new_size \in block.size .. MaxSize, alignment \in Alignments :
                      block.address + new_size <= ends_at_pointer =>
                         LET out == growing_reallocate(
                                        most_recent_allocation_pointer,
                                        next_allocation_at_pointer,
                                        ends_at_pointer, new_size, alignment,
                                        block.address)
                         IN  out.result = "Ok" /\ out.ret = block.address

\* C18: under any interleaving of calls by a caller that passes only blocks it
\* holds, at their current sizes, the held blocks do not overlap one another,
\* each lies inside [start, ends_at_pointer) and each ends at or before
\* next_allocation_at_pointer.
C18_HeldBlocksSafe ==
    phase = "live" =>
        /\ \A a, b \in live : a # b => Disjoint(a, b)
        /\ \A b \in live :
              /\ RegionStart <= b.address
              /\ b.address + b.size <= ends_at_pointer
              /\ b.address + b.size <= next_allocation_at_pointer

\* two blocks are held after one was moved by a grow, with dead space between
C18_Witness ==
    /\ Succeeded("growing_reallocate")
    /\ last.ret # last.current_memory
    /\ Cardinality(live) = 2
    /\ \E a, b \in live : a.address + a.size < b.address

IsPowerOfTwo(n) == \E k \in 0 .. U32Bits : n = 2 ^ k

SmallestPowerOfTwoFrom(a, n) ==
    /\ IsPowerOfTwo(n)
    /\ n >= a
    /\ \A m \in a .. n - 1 : ~ IsPowerOfTwo(m)

\* C19: next_power_of_two(a) returns, for every non-zero u32 a, the smallest
\* power of two >= a, itself a non-zero u32.
C19_NextPowerOfTwoTotal ==
    u32call.op = "next_power_of_two" =>
        /\ ~ u32call.panicked
        /\ u32call.value \in NonZeroU32
        /\ SmallestPowerOfTwoFrom(u32call.a, u32call.value)

\* C19, as amended: for every non-zero a up to the largest power of two of a
\* u32, next_power_of_two(a) returns the smallest power of two >= a, a
\* non-zero u32; for a larger a no call returns a power of two >= a.
C19_NextPowerOfTwoInRange ==
    u32call.op = "next_power_of_two" =>
        IF u32call.a <= U32Modulus \div 2
        THEN /\ ~ u32call.panicked
             /\ u32call.value \in NonZeroU32
             /\ SmallestPowerOfTwoFrom(u32call.a, u32call.value)
        ELSE \/ u32call.panicked
             \/ ~ ( IsPowerOfTwo(u32call.value) /\ u32call.value >= u32call.a )

\* a value that is no power of two was rounded up to the largest one
C19_Witness ==
    /\ u32call.op = "next_power_of_two"
    /\ u32call.a > U32Modulus \div 4
    /\ u32call.a < U32Modulus \div 2
    /\ ~ u32call.panicked
    /\ u32call.value = U32Modulus \div 2

\* C20: checked_add(a, b) returns Some(a + b) when a + b <= u32::MAX and None
\* otherwise; no Some holds a wrapped sum or zero.
C20_CheckedAdd ==
    u32call.op = "checked_add" =>
        /\ u32call.some <=> u32call.a + u32call.b <= U32Max
        /\ u32call.some =>
              /\ u32call.value = u32call.a + u32call.b
              /\ u32call.value \in NonZeroU32

\* the largest sum that fits
C20_Witness ==
    /\ u32call.op = "checked_add"
    /\ u32call.some
    /\ u32call.value = U32Max
    /\ u32call.a > 1
    /\ u32call.b > 1

====
